---- MODULE Spec2Model ----
(***************************************************************************)
(* The semantic search application (src/app.py) and the vector store it    *)
(* talks to.  The store is a hosted service shared by every process that   *)
(* holds its URL: the workers serving app.py and the indexing script       *)
(* src/index_qdrant.py.  A handler of app.py is an `async def` that never  *)
(* awaits between its store calls, so inside one worker a request runs to  *)
(* its end before the next begins; requests of different workers interleave*)
(* at the granularity of one store call.  worker w handles req[w].         *)
(***************************************************************************)
EXTENDS Integers, Sequences, FiniteSets, TLC

\* ------------------------------------------------------------------ bounds
Workers == 2            \* worker processes sharing the store
MaxRequests == 2        \* requests received in one behaviour
MaxChunks == 2          \* chunks of an uploaded PDF
MaxPageLen == 2         \* characters of text on one page of a PDF
MaxWindow == 3          \* chunk_size values tried: 1..MaxWindow

\* ------------------------------------------------------- program constants
ScanLimit == 100        \* scroll(limit=100) of the ingestion handlers
ChatScanLimit == 1000   \* scroll(limit=1000) of the chat pages
BatchSize == 20         \* batch_size of upload_pdf
EmbedDim == 384         \* output size of BAAI/bge-small-en-v1.5
SearchLimit == 10       \* limit of search_and_query_groq
ChatSearchLimit == 5    \* limit of chat_post

KB == "knowledge_base"
CHAT == "chat_history"
MISSING == "no_such_collection"
Names == {KB, CHAT, MISSING}
COSINE == "Cosine"

NotFoundMsg == "Collection not found. Please create and populate the collection first."

\* ------------------------------------------------------------------- state
VARIABLES
    exists,     \* names of the collections the store holds
    vparams,    \* collection name -> its VectorParams (size, distance)
    points,     \* collection name -> (point id -> [vector size, payload])
    base,       \* history: the store as it was when the behaviour began
    log,        \* history: every point an accepted upsert carried, in order
    req,        \* worker -> the request it is handling, with its locals; readAt
                \* and wroteAt are history: Len(log) at its scroll, and the
                \* place in log of the first point it upserted
    started,    \* history: number of requests received so far
    overlapped, \* history: two requests have been in flight at once
    asked,      \* history: the create-collection requests answered, in order
    used,       \* uuid4 values generated as point identifiers so far
    sessions,   \* number of uuid4 values generated as session identifiers
    now,        \* time.time(), in whole seconds
    pdf,        \* the run of extract_pdf_chunks: its input and its result
    clients     \* browser -> its session cookie (0: none), and as history the
                \* requests it has in flight, whether two of them ever were at
                \* once, and the session ids its answered posts were stored under

vars == <<exists, vparams, points, base, log, req, started, overlapped, asked,
          used, sessions, now, pdf, clients>>
envVars == <<used, sessions, now, pdf, clients>>

W == 1..Workers

\* ------------------------------------------------------------ small helpers
Max(S) == CHOOSE m \in S : \A x \in S : x <= m
Min(S) == CHOOSE m \in S : \A x \in S : m <= x
MinOf(a, b) == IF a <= b THEN a ELSE b

EmptyPoints == [i \in {} |-> 0]
NoParams == [size |-> 0, distance |-> "None"]

\* ------------------------------------------------------- the vector store
\* [c.name for c in client.get_collections().collections]
GetCollections == exists

\* client.scroll(collection_name, limit): the first `limit` points in the
\* store's scan order.  The store scrolls by ascending point id; integer ids
\* are those of documents, uuid4 ids (numbered here) those of chat turns.
ScrollIds(name, limit) ==
    {i \in DOMAIN points[name] :
        Cardinality({j \in DOMAIN points[name] : j < i}) < limit}

\* a point as it is upserted: models.PointStruct(id, vector, payload)
PointStruct(id, vsize, payload) == [id |-> id, vsize |-> vsize, payload |-> payload]

\* upsert wrongly keeping the stored point when the id is already present
UpsertedKeepOld(old, batch) ==
    old @@ [i \in {batch[k].id : k \in 1..Len(batch)} |->
              LET k == CHOOSE k \in 1..Len(batch) : batch[k].id = i
              IN  [vsize |-> batch[k].vsize, payload |-> batch[k].payload]]

\* the contents of a collection after client.upsert(points=batch): a point
\* whose id is present is replaced, any other is added.
Upserted(old, batch) ==
    [i \in {batch[k].id : k \in 1..Len(batch)} |->
        LET k == CHOOSE k \in 1..Len(batch) : batch[k].id = i
        IN  [vsize |-> batch[k].vsize, payload |-> batch[k].payload]] @@ old

\* the vector configuration, wrongly of the default size whatever was asked
VectorParamsDefaultSize(size) == [size |-> EmbedDim, distance |-> COSINE]

\* models.VectorParams(size=size, distance=models.Distance.COSINE)
VectorParams(size) == [size |-> size, distance |-> COSINE]

\* the store accepts an upsert into an existing collection whose vector
\* size every point matches; it raises otherwise.
UpsertAccepted(name, batch) ==
    /\ name \in exists
    /\ \A k \in 1..Len(batch) : batch[k].vsize = vparams[name].size

LogEntries(name, batch) ==
    [k \in 1..Len(batch) |-> [c |-> name, id |-> batch[k].id, payload |-> batch[k].payload]]

\* embedder.encode(text): a vector of the model's output size
Encode(text) == EmbedDim

\* --------------------------------------------------------------- requests
Call(name, c) == [call |-> name, c |-> c]

Idle ==
    [op |-> "idle", pc |-> "idle", cname |-> "", text |-> <<"", 0>>, tag |-> "",
     ext |-> "", n |-> 0, scanned |-> {}, next_id |-> 0, i |-> 0, ids |-> <<>>,
     calls |-> <<>>, result |-> "", success |-> FALSE,
     readAt |-> 0, wroteAt |-> 0, seen |-> {}, hits |-> <<>>, raised |-> "",
     size |-> 0, cookie |-> 0, sid |-> 0, ts |-> 0, scan |-> <<>>, history |-> <<>>,
     summaries |-> <<>>, sent |-> <<>>, reported |-> 0, set_cookie |-> 0,
     client |-> ""]

\* an adapter call raised, and the failure is wrongly swallowed: the handler
\* answers with what it has
RaiseSwallowed(w, call, c) ==
    req' = [req EXCEPT ![w].calls = Append(@, Call(call, c)),
                       ![w].raised = call,
                       ![w].pc = "done"]

\* an adapter call raised: no handler has a try/except, so the exception
\* leaves the handler
Raise(w, call, c) ==
    req' = [req EXCEPT ![w].calls = Append(@, Call(call, c)),
                       ![w].raised = call,
                       ![w].pc = "failed"]

Busy(w) == req[w].op # "idle"
Finished(w) == req[w].pc \in {"done", "failed"}

\* the browsers whose cookies are followed, each starting without a cookie
Clients == {"a", "b"}
NewClient == [jar |-> 0, in_flight |-> 0, overlapped |-> FALSE, stored |-> {}]

\* a worker takes a request: it must be free, and the behaviour is bounded
Accept(w) ==
    /\ ~Busy(w)
    /\ started < MaxRequests
    /\ started' = started + 1
    /\ overlapped' = (overlapped \/ \E v \in W \ {w} : Busy(v))

IngestOps == {"add_document", "upload_pdf"}
IngestTargets == {KB, MISSING}
Texts == {<<"alpha", 0>>, <<"beta", 0>>}
Categories == {"notes"}
Stems == {"a"}
Extensions == {".PDF", ".txt"}
VectorSizes == {EmbedDim, 128}
ChunkCounts == {0, 1, MaxChunks}

\* str.lower() on the extensions in use
Lower(e) == IF e = ".PDF" THEN ".pdf" ELSE e

\* the text of chunk i of the PDF named stem
ChunkText(stem, i) == <<stem, i>>

\* the next identifier, wrongly the maximum itself
NextIdNoIncrement(window) == IF window # {} THEN Max(window) ELSE 1

\* "Get next available ID": max+1 over the scanned points, 1 when none
NextId(window) == IF window # {} THEN Max(window) + 1 ELSE 1

\* client.scroll(...) and the computation of next_id that follows it
ScanForNextId(w) ==
    IF req[w].cname \in exists
    THEN LET window == ScrollIds(req[w].cname, ScanLimit)
         IN  req' = [req EXCEPT ![w].calls = Append(@, Call("scroll", req[w].cname)),
                                ![w].scanned = window,
                                ![w].readAt = Len(log),
                                ![w].next_id = NextId(window),
                                ![w].pc = IF req[w].n = 0 THEN "done" ELSE "upsert",
                                ![w].reported = IF req[w].n = 0 THEN req[w].n ELSE @,
                                ![w].success = (req[w].n = 0)]
    ELSE Raise(w, "scroll", req[w].cname)

\* POST /add-document
StartAddDocument(w) ==
    /\ Accept(w)
    /\ \E cname \in IngestTargets, text \in Texts, category \in Categories :
         req' = [req EXCEPT ![w] = [Idle EXCEPT !.op = "add_document", !.pc = "scroll",
                                       !.cname = cname, !.text = text, !.tag = category,
                                       !.n = 1, !.calls = <<Call("encode", "")>>]]
    /\ UNCHANGED <<exists, vparams, points, base, log, asked, envVars>>

AddDocumentScroll(w) ==
    /\ req[w].op = "add_document" /\ req[w].pc = "scroll"
    /\ ScanForNextId(w)
    /\ UNCHANGED <<exists, vparams, points, base, log, asked, started, overlapped, envVars>>

AddDocumentUpsert(w) ==
    /\ req[w].op = "add_document" /\ req[w].pc = "upsert"
    /\ LET r == req[w]
           batch == <<PointStruct(r.next_id, Encode(r.text),
                                  [text |-> r.text, category |-> r.tag])>>
       IN  IF UpsertAccepted(r.cname, batch)
           THEN /\ points' = [points EXCEPT ![r.cname] = Upserted(@, batch)]
                /\ log' = log \o LogEntries(r.cname, batch)
                /\ req' = [req EXCEPT ![w].calls = @ \o <<Call("upsert", r.cname),
                                                         Call("get_collections", "")>>,
                                       ![w].ids = <<r.next_id>>,
                                       ![w].wroteAt = Len(log) + 1,
                                       ![w].i = 1,
                                       ![w].result = "Document added",
                                       ![w].success = TRUE,
                                       ![w].pc = "done"]
           ELSE /\ Raise(w, "upsert", r.cname)
                /\ UNCHANGED <<points, log>>
    /\ UNCHANGED <<exists, vparams, base, asked, started, overlapped, envVars>>

\* POST /upload-pdf with a file of n chunks, n drawn from `counts`
UploadPdfRequest(w, counts) ==
    \E cname \in IngestTargets, stem \in Stems, e \in Extensions, n \in counts :
         req' = [req EXCEPT ![w] =
                    IF Lower(e) = ".pdf"
                    THEN [Idle EXCEPT !.op = "upload_pdf", !.pc = "scroll", !.cname = cname,
                                      !.tag = stem, !.ext = e, !.n = n,
                                      !.calls = <<Call("get_collections", "")>>]
                    ELSE [Idle EXCEPT !.op = "upload_pdf", !.pc = "done", !.cname = cname,
                                      !.tag = stem, !.ext = e,
                                      !.calls = <<Call("get_collections", "")>>,
                                      !.result = "Please upload a valid PDF file."]]

\* POST /upload-pdf
StartUploadPdf(w) ==
    /\ Accept(w)
    /\ UploadPdfRequest(w, ChunkCounts)
    /\ UNCHANGED <<exists, vparams, points, base, log, asked, envVars>>

UploadPdfScroll(w) ==
    /\ req[w].op = "upload_pdf" /\ req[w].pc = "scroll"
    /\ ScanForNextId(w)
    /\ UNCHANGED <<exists, vparams, points, base, log, asked, started, overlapped, envVars>>

\* the loop flushing a batch only when it is full
FlushWhenFull(batch_len, i, n) == batch_len = BatchSize

\* if len(batch) == batch_size or i == len(chunks) - 1
Flush(batch_len, i, n) == batch_len = BatchSize \/ i = n - 1

\* the loop over enumerate(chunks), run from chunk i with `batch` in hand up
\* to its next client.upsert, or to its end when no upsert is left to make:
\* the chunk indices of the batch, the index the loop has come to, and
\* whether the batch is upserted.
RECURSIVE BatchLoop(_, _, _)
BatchLoop(batch, i, n) ==
    IF i >= n
    THEN [batch |-> batch, i |-> i, flush |-> FALSE]
    ELSE LET appended == Append(batch, i)
         IN  IF Flush(Len(appended), i, n)
             THEN [batch |-> appended, i |-> i + 1, flush |-> TRUE]
             ELSE BatchLoop(appended, i + 1, n)

\* one run of the batching loop up to and including its client.upsert; the
\* response is built once the loop is over
UploadPdfUpsert(w) ==
    /\ req[w].op = "upload_pdf" /\ req[w].pc = "upsert"
    /\ LET r == req[w]
           turn == BatchLoop(<<>>, r.i, r.n)
           batch == [k \in 1..Len(turn.batch) |->
                       PointStruct(r.next_id + turn.batch[k],
                                   Encode(ChunkText(r.tag, turn.batch[k])),
                                   [text |-> ChunkText(r.tag, turn.batch[k]),
                                    source |-> <<r.tag, r.ext>>,
                                    chunk |-> turn.batch[k]])]
       IN  IF ~turn.flush
           THEN /\ req' = [req EXCEPT ![w].i = turn.i,
                                       ![w].reported = r.n,
                                       ![w].success = TRUE,
                                       ![w].pc = "done"]
                /\ UNCHANGED <<points, log>>
           ELSE IF UpsertAccepted(r.cname, batch)
           THEN /\ points' = [points EXCEPT ![r.cname] = Upserted(@, batch)]
                /\ log' = log \o LogEntries(r.cname, batch)
                /\ req' = [req EXCEPT ![w].calls = Append(@, Call("upsert", r.cname)),
                                       ![w].ids = @ \o [k \in 1..Len(batch) |-> batch[k].id],
                                       ![w].sent = Append(@, turn.batch),
                                       ![w].i = turn.i,
                                       ![w].wroteAt = IF r.i = 0 THEN Len(log) + 1 ELSE @,
                                       ![w].reported = IF turn.i = r.n THEN r.n ELSE @,
                                       ![w].success = (turn.i = r.n),
                                       ![w].pc = IF turn.i = r.n THEN "done" ELSE "upsert"]
           ELSE /\ Raise(w, "upsert", r.cname)
                /\ UNCHANGED <<points, log>>
    /\ UNCHANGED <<exists, vparams, base, asked, started, overlapped, envVars>>

\* the response leaves (or the exception does) and the worker is free again;
\* the browser that sent the request keeps the cookie the response sets
Respond(w) ==
    /\ Finished(w)
    /\ req' = [req EXCEPT ![w] = Idle]
    /\ clients' =
         IF req[w].client = "" THEN clients
         ELSE [clients EXCEPT ![req[w].client] =
                 [@ EXCEPT !.jar = IF req[w].set_cookie # 0 THEN req[w].set_cookie ELSE @,
                           !.in_flight = @ - 1,
                           !.stored = IF req[w].op = "chat_post" /\ req[w].wroteAt > 0
                                      THEN @ \cup {log[req[w].wroteAt].payload.session_id}
                                      ELSE @]]
    /\ UNCHANGED <<exists, vparams, points, base, log, asked, started, overlapped,
                   used, sessions, now, pdf>>

\* ------------------------------------------------- ingestion: specification
NoPdf == [pc |-> "none", pages |-> <<>>, chunk_size |-> 0, all_text |-> <<>>, chunks |-> <<>>]

\* no request in flight, no history, the clock at its origin
InitRest ==
    /\ base = [exists |-> exists, vparams |-> vparams, points |-> points]
    /\ log = <<>>
    /\ asked = <<>>
    /\ req = [w \in W |-> Idle]
    /\ started = 0
    /\ overlapped = FALSE
    /\ used = {}
    /\ sessions = 0
    /\ now = 0
    /\ pdf = NoPdf
    /\ clients = [c \in Clients |-> NewClient]

\* an empty collection, a full scan window, one point past the window
SeedSizes == {0, ScanLimit, ScanLimit + 1}
SeedPoints(k) ==
    [i \in 1..k |-> [vsize |-> EmbedDim,
                     payload |-> [text |-> <<"seed", i>>, category |-> "seed"]]]

InitIngest ==
    /\ exists = {KB}
    /\ \E size \in VectorSizes :
         vparams = [c \in Names |-> IF c = KB THEN [size |-> size, distance |-> COSINE]
                                    ELSE NoParams]
    /\ \E k \in SeedSizes :
         /\ points = [c \in Names |-> IF c = KB /\ vparams[KB].size = EmbedDim
                                      THEN SeedPoints(k) ELSE EmptyPoints]
    /\ InitRest

NextIngest ==
    \E w \in W :
        \/ StartAddDocument(w)
        \/ AddDocumentScroll(w)
        \/ AddDocumentUpsert(w)
        \/ StartUploadPdf(w)
        \/ UploadPdfScroll(w)
        \/ UploadPdfUpsert(w)
        \/ Respond(w)

SpecIngest == InitIngest /\ [][NextIngest]_vars

\* ----------------------------------------------------- ingestion: claims
IdsFrom(first, n) == [k \in 1..n |-> first + k - 1]

\* the text of the k-th chunk (k = 1..n) of an ingestion request
ChunkOf(r, k) == IF r.op = "add_document" THEN r.text ELSE ChunkText(r.tag, k - 1)

Ingested(w) == req[w].op \in IngestOps /\ req[w].pc = "done" /\ req[w].success

LogOf(c) == {j \in 1..Len(log) : log[j].c = c}

\* C2: an ingestion of N chunks that scanned no point assigns the identifiers
\* 1..N; one whose scanned window (at most the first 100 points) has maximum
\* M assigns M+1..M+N; the k-th chunk is upserted under the k-th identifier.
C2_IdentifierAssignment ==
    \A w \in W : Ingested(w) =>
        LET r == req[w]
        IN  /\ Cardinality(r.scanned) <= ScanLimit
            /\ r.scanned = {} => r.ids = IdsFrom(1, r.n)
            /\ r.scanned # {} => r.ids = IdsFrom(Max(r.scanned) + 1, r.n)
            /\ \A k \in 1..r.n :
                 \E j \in LogOf(r.cname) :
                    /\ j >= r.wroteAt
                    /\ log[j].id = r.ids[k]
                    /\ log[j].payload.text = ChunkOf(r, k)

\* an upload of several chunks into a collection whose window is full, and
\* an ingestion into an empty collection
C2_Witness ==
    \E w \in W :
        /\ Ingested(w) /\ req[w].op = "upload_pdf" /\ req[w].n >= 2
        /\ Cardinality(req[w].scanned) = ScanLimit
        /\ req[w].ids = IdsFrom(Max(req[w].scanned) + 1, req[w].n)

\* C3: as long as ingestions run one after another, no stored point is ever
\* written again: the initial points and every ingested chunk keep their
\* payload, and the collection grows by exactly the chunks ingested.
C3_IngestionOnlyAdds ==
    ~overlapped =>
        \A c \in Names :
            /\ \A i \in DOMAIN base.points[c] :
                 i \in DOMAIN points[c] /\ points[c][i] = base.points[c][i]
            /\ \A j \in LogOf(c) : points[c][log[j].id].payload = log[j].payload
            /\ Cardinality(DOMAIN points[c]) =
                 Cardinality(DOMAIN base.points[c]) + Cardinality(LogOf(c))

\* two finished ingestions of different workers into one collection that
\* each read the same maximum before the other's first upsert
Raced(w1, w2) ==
    /\ w1 # w2 /\ Ingested(w1) /\ Ingested(w2)
    /\ req[w1].cname = req[w2].cname
    /\ req[w1].n >= 1 /\ req[w2].n >= 1
    /\ req[w1].readAt < req[w2].wroteAt /\ req[w2].readAt < req[w1].wroteAt
    /\ \/ req[w1].scanned = {} /\ req[w2].scanned = {}
       \/ /\ req[w1].scanned # {} /\ req[w2].scanned # {}
          /\ Max(req[w1].scanned) = Max(req[w2].scanned)

LastWrite(c, id) == Max({j \in LogOf(c) : log[j].id = id})

\* C4: nothing keeps two ingestions of different workers from both reading
\* the same maximum before either upserts; they then give their first chunks
\* the same identifier, the point stored under it is the one upserted last,
\* and the collection holds fewer points than were ingested.
C4_RaceCollides ==
    \A w1, w2 \in W : Raced(w1, w2) =>
        LET c == req[w1].cname
            id == req[w1].ids[1]
        IN  /\ req[w1].next_id = req[w2].next_id
            /\ req[w2].ids[1] = id
            /\ log[req[w1].wroteAt].id = id /\ log[req[w2].wroteAt].id = id
            /\ points[c][id].payload = log[LastWrite(c, id)].payload
            /\ Cardinality(DOMAIN points[c]) <
                 Cardinality(DOMAIN base.points[c]) + Cardinality(LogOf(c))

\* the race, with different chunks: the chunk upserted first is gone
C4_Witness ==
    \E w1, w2 \in W :
        /\ Raced(w1, w2)
        /\ req[w1].wroteAt < req[w2].wroteAt
        /\ log[req[w1].wroteAt].payload # log[req[w2].wroteAt].payload
        /\ points[req[w1].cname][req[w1].ids[1]].payload = log[req[w2].wroteAt].payload

\* ------------------------------------------------------ retrieval pipeline
RECURSIVE SortedSeq(_)
\* the elements of a finite set of numbers in ascending order
SortedSeq(S) == IF S = {} THEN <<>> ELSE <<Min(S)>> \o SortedSeq(S \ {Min(S)})

\* client.search(collection_name, query_vector, limit): at most `limit` hits.
\* The ranking is the store's; the hits are listed here in scan order.
SearchHits(name, limit) ==
    LET ids == SortedSeq(ScrollIds(name, limit))
    IN  [k \in 1..Len(ids) |-> [id |-> ids[k], payload |-> points[name][ids[k]].payload]]

Queries == {<<"what is cosine similarity", 0>>, <<"how to index", 0>>}
Answer == "generated answer"

\* the existence test, wrongly always passing
CollectionFoundAlways(name, listing) == TRUE

\* collection_name in [c.name for c in client.get_collections().collections]
CollectionFound(name, listing) == name \in listing

\* POST /search and GET /api/search, both through search_and_query_groq
StartSearch(w) ==
    /\ Accept(w)
    /\ \E query \in Queries, cname \in Names :
         req' = [req EXCEPT ![w] = [Idle EXCEPT !.op = "search", !.pc = "list",
                                               !.cname = cname, !.text = query]]
    /\ UNCHANGED <<exists, vparams, points, base, log, asked, envVars>>

SearchList(w) ==
    /\ req[w].op = "search" /\ req[w].pc = "list"
    /\ \E ok \in BOOLEAN :
         IF ~ok THEN Raise(w, "get_collections", "")
         ELSE IF CollectionFound(req[w].cname, GetCollections)
         THEN req' = [req EXCEPT ![w].calls = Append(@, Call("get_collections", "")),
                                 ![w].seen = GetCollections,
                                 ![w].pc = "embed"]
         ELSE req' = [req EXCEPT ![w].calls = Append(@, Call("get_collections", "")),
                                 ![w].seen = GetCollections,
                                 ![w].hits = <<>>,
                                 ![w].result = NotFoundMsg,
                                 ![w].pc = "done"]
    /\ UNCHANGED <<exists, vparams, points, base, log, asked, started, overlapped, envVars>>

SearchEmbed(w) ==
    /\ req[w].op = "search" /\ req[w].pc = "embed"
    /\ \E ok \in BOOLEAN :
         IF ~ok THEN Raise(w, "encode", "")
         ELSE req' = [req EXCEPT ![w].calls = Append(@, Call("encode", "")),
                                 ![w].pc = "search"]
    /\ UNCHANGED <<exists, vparams, points, base, log, asked, started, overlapped, envVars>>

SearchStore(w) ==
    /\ req[w].op = "search" /\ req[w].pc = "search"
    /\ \E ok \in BOOLEAN :
         IF ~ok \/ req[w].cname \notin exists THEN Raise(w, "search", req[w].cname)
         ELSE req' = [req EXCEPT ![w].calls = Append(@, Call("search", req[w].cname)),
                                 ![w].hits = SearchHits(req[w].cname, SearchLimit),
                                 ![w].pc = "generate"]
    /\ UNCHANGED <<exists, vparams, points, base, log, asked, started, overlapped, envVars>>

SearchGenerate(w) ==
    /\ req[w].op = "search" /\ req[w].pc = "generate"
    /\ \E ok \in BOOLEAN :
         IF ~ok THEN Raise(w, "generate", "")
         ELSE req' = [req EXCEPT ![w].calls = Append(@, Call("generate", "")),
                                 ![w].result = Answer,
                                 ![w].success = TRUE,
                                 ![w].pc = "done"]
    /\ UNCHANGED <<exists, vparams, points, base, log, asked, started, overlapped, envVars>>

\* what the store may hold when a search arrives
InitSearch ==
    /\ exists \in {{}, {KB}, {KB, CHAT}}
    /\ vparams = [c \in Names |-> IF c \in exists THEN [size |-> EmbedDim, distance |-> COSINE]
                                  ELSE NoParams]
    /\ \E k \in {0, 2, SearchLimit + 1} :
         points = [c \in Names |-> IF c = KB /\ KB \in exists
                                   THEN SeedPoints(k) ELSE EmptyPoints]
    /\ InitRest

NextSearch ==
    \E w \in W :
        \/ StartSearch(w)
        \/ SearchList(w)
        \/ SearchEmbed(w)
        \/ SearchStore(w)
        \/ SearchGenerate(w)
        \/ Respond(w)

SpecSearch == InitSearch /\ [][NextSearch]_vars

\* C1: a search whose listing came back without the target collection ends
\* normally with no hits and the fixed message, and has called neither the
\* embedder, nor the store's search, nor the answer generator.
C1_MissingCollectionSoftFails ==
    \A w \in W :
        (/\ req[w].op = "search" /\ req[w].pc # "list"
         /\ req[w].raised # "get_collections"
         /\ req[w].cname \notin req[w].seen)
        => /\ req[w].pc = "done"
           /\ req[w].hits = <<>>
           /\ req[w].result = NotFoundMsg
           /\ req[w].calls = <<Call("get_collections", "")>>

\* a search of a collection the store does not hold has been answered
C1_Witness ==
    \E w \in W :
        /\ req[w].op = "search" /\ req[w].pc = "done"
        /\ req[w].cname \notin exists
        /\ req[w].result = NotFoundMsg /\ req[w].hits = <<>>

\* the adapter calls of search_and_query_groq on collection c, in code order
Pipeline(c) ==
    <<Call("get_collections", ""), Call("encode", ""), Call("search", c), Call("generate", "")>>

\* what search_and_query_groq hands back to the endpoint: its return value
\* once it has returned, nothing when it raised or is still running
Returned(r) ==
    IF r.pc = "done"
    THEN [returned |-> TRUE, search_result |-> r.hits, ai_response |-> r.result]
    ELSE [returned |-> FALSE, search_result |-> <<>>, ai_response |-> ""]

\* C12: the adapter calls a search has made are an initial part of listing,
\* embedding, store search, generation, each made at most once; when one of
\* them has failed it is the last call made, the request has ended in
\* failure, and neither hits nor an answer have been returned.
C12_FailurePropagates ==
    \A w \in W :
        LET r == req[w]
        IN  r.op = "search" =>
              /\ Len(r.calls) <= Len(Pipeline(r.cname))
              /\ r.calls = SubSeq(Pipeline(r.cname), 1, Len(r.calls))
              /\ (r.raised # "" =>
                    /\ r.calls[Len(r.calls)].call = r.raised
                    /\ r.pc = "failed"
                    /\ ~r.success
                    /\ ~Returned(r).returned
                    /\ Returned(r).search_result = <<>>
                    /\ Returned(r).ai_response = "")
              /\ (Returned(r).returned =>
                    \/ r.calls = Pipeline(r.cname) /\ r.result = Answer
                    \/ r.calls = SubSeq(Pipeline(r.cname), 1, 1) /\ r.result = NotFoundMsg)

\* the answer generator failed after the store search had found hits
C12_Witness ==
    \E w \in W :
        /\ req[w].op = "search" /\ req[w].raised = "generate"
        /\ req[w].hits # <<>>
        /\ Len(req[w].calls) = 4

StoreOps == {"scroll", "search", "upsert"}

\* C5: a request issues a scan, a search or an upsert against a collection
\* only after it has listed the collections, never against a collection the
\* store does not hold, and a request naming an absent collection is not
\* ended by the store's exception.
C5_ExistenceCheckedFirst ==
    \A w \in W :
        /\ \A k \in 1..Len(req[w].calls) :
             req[w].calls[k].call \in StoreOps =>
                /\ \E j \in 1..(k - 1) : req[w].calls[j].call = "get_collections"
                /\ req[w].calls[k].c \in exists
        /\ (Busy(w) /\ req[w].cname \notin exists) => req[w].raised \notin StoreOps

\* ------------------------------------------------------ extract_pdf_chunks
Whitespace == {" ", "\n"}
Alphabet == {"x"} \cup Whitespace

PageTexts == UNION {[1..n -> Alphabet] : n \in 0..MaxPageLen}

\* a PDF of one page or of two
Pdfs == {<<p>> : p \in PageTexts} \cup {<<p, q>> : p \in PageTexts, q \in PageTexts}

RECURSIVE AllText(_)
\* the loop over reader.pages: the text of every page that has some,
\* each followed by a newline
AllText(pages) ==
    IF pages = <<>> THEN <<>>
    ELSE (IF Head(pages) # <<>> THEN Head(pages) \o <<"\n">> ELSE <<>>)
         \o AllText(Tail(pages))

\* the Python slice s[i:j], 0 <= i <= j
Slice(s, i, j) == SubSeq(s, i + 1, MinOf(j, Len(s)))

RECURSIVE LStrip(_)
LStrip(s) == IF s # <<>> /\ Head(s) \in Whitespace THEN LStrip(Tail(s)) ELSE s

RECURSIVE RStrip(_)
RStrip(s) ==
    IF s # <<>> /\ s[Len(s)] \in Whitespace THEN RStrip(SubSeq(s, 1, Len(s) - 1)) ELSE s

\* str.strip()
Strip(s) == RStrip(LStrip(s))

\* the filter, wrongly keeping every non-empty window
KeptIfNonEmpty(window) == window # <<>>

\* the filter of the comprehension: `if all_text[i:i+chunk_size].strip()`
Kept(window) == Strip(window) # <<>>

RECURSIVE ChunksFrom(_, _, _)
\* [all_text[i:i+chunk_size] for i in range(i0, len(all_text), chunk_size) if ...]
ChunksFrom(all_text, chunk_size, i) ==
    IF i >= Len(all_text) THEN <<>>
    ELSE LET window == Slice(all_text, i, i + chunk_size)
         IN  (IF Kept(window) THEN <<window>> ELSE <<>>)
             \o ChunksFrom(all_text, chunk_size, i + chunk_size)

Chunks(all_text, chunk_size) == ChunksFrom(all_text, chunk_size, 0)

InitChunk ==
    /\ exists = {}
    /\ vparams = [c \in Names |-> NoParams]
    /\ points = [c \in Names |-> EmptyPoints]
    /\ base = [exists |-> exists, vparams |-> vparams, points |-> points]
    /\ log = <<>>
    /\ asked = <<>>
    /\ req = [w \in W |-> Idle]
    /\ started = 0
    /\ overlapped = FALSE
    /\ used = {}
    /\ sessions = 0
    /\ now = 0
    /\ clients = [c \in Clients |-> NewClient]
    /\ \E pages \in Pdfs, chunk_size \in 1..MaxWindow :
         pdf = [NoPdf EXCEPT !.pc = "call", !.pages = pages, !.chunk_size = chunk_size]

ExtractPdfChunks ==
    /\ pdf.pc = "call"
    /\ pdf' = [pdf EXCEPT !.all_text = AllText(pdf.pages),
                          !.chunks = Chunks(AllText(pdf.pages), pdf.chunk_size),
                          !.pc = "returned"]
    /\ UNCHANGED <<exists, vparams, points, base, log, req, started, overlapped, asked,
                   used, sessions, now, clients>>

NextChunk == ExtractPdfChunks

SpecChunk == InitChunk /\ [][NextChunk]_vars

CeilDiv(a, b) == (a + b - 1) \div b

\* window k (k = 0, 1, ...) of a text: its characters k*W+1 .. min((k+1)*W, L)
WindowAt(text, w, k) == [j \in 1..(MinOf((k + 1) * w, Len(text)) - k * w) |-> text[k * w + j]]

BlankAt(text, w, k) == \A j \in (k * w + 1)..MinOf((k + 1) * w, Len(text)) : text[j] \in Whitespace

RECURSIVE Concat(_)
Concat(ss) == IF ss = <<>> THEN <<>> ELSE Head(ss) \o Concat(Tail(ss))

\* C6: the chunks of a text of length L under window W are, in order, the
\* windows k = 0 .. ceil(L/W)-1 that are not blank: their number is ceil(L/W)
\* minus the number of blank windows, none is longer than W, and their
\* concatenation is the text without the characters of the blank windows.
C6_Chunking ==
    pdf.pc = "returned" =>
        LET text == pdf.all_text
            w == pdf.chunk_size
            L == Len(text)
            all == 0..(CeilDiv(L, w) - 1)
            blank == {k \in all : BlankAt(text, w, k)}
            kept == SortedSeq(all \ blank)
            left == SelectSeq([p \in 1..L |-> p], LAMBDA p : ((p - 1) \div w) \notin blank)
        IN  /\ Len(pdf.chunks) = CeilDiv(L, w) - Cardinality(blank)
            /\ \A m \in 1..Len(pdf.chunks) :
                 /\ pdf.chunks[m] = WindowAt(text, w, kept[m])
                 /\ Len(pdf.chunks[m]) <= w
            /\ Concat(pdf.chunks) = [m \in 1..Len(left) |-> text[left[m]]]

\* a text of several windows, one of them blank and one only partly filled
C6_Witness ==
    /\ pdf.pc = "returned"
    /\ Len(pdf.chunks) >= 2
    /\ Len(pdf.chunks) < CeilDiv(Len(pdf.all_text), pdf.chunk_size)
    /\ Len(pdf.all_text) % pdf.chunk_size # 0

\* ------------------------------------------------------------- chat pages
\* client.scroll("chat_history", limit, with_payload=True): the points read,
\* in the store's scan order
Scroll(name, limit) ==
    LET ids == SortedSeq(ScrollIds(name, limit))
    IN  [k \in 1..Len(ids) |-> [id |-> ids[k], payload |-> points[name][ids[k]].payload]]

\* x put behind every element whose key is not greater than its own
InsertByKey(x, s) ==
    LET n == Cardinality({k \in 1..Len(s) : s[k].key <= x.key})
    IN  SubSeq(s, 1, n) \o <<x>> \o SubSeq(s, n + 1, Len(s))

\* no sorting at all: the scan order is kept
Unsorted(pairs) == pairs

RECURSIVE InsertionSort(_)
InsertionSort(pairs) ==
    IF pairs = <<>> THEN <<>>
    ELSE InsertByKey(pairs[Len(pairs)], InsertionSort(SubSeq(pairs, 1, Len(pairs) - 1)))

\* sorted(items, key=...): ascending by key, equal keys in their given order
StableSort(pairs) == InsertionSort(pairs)

\* sorted(points[0], key=lambda p: p.payload.get("timestamp", 0) ...)
SortedByTimestamp(scan) ==
    LET sorted == StableSort([k \in 1..Len(scan) |->
                                [key |-> scan[k].payload.timestamp, val |-> scan[k]]])
    IN  [k \in 1..Len(sorted) |-> sorted[k].val]

\* the loop of chat_session_page: the turns of the session, oldest first
Replay(scan, session_id) ==
    LET mine == SelectSeq(SortedByTimestamp(scan),
                          LAMBDA p : p.payload.session_id = session_id)
    IN  [k \in 1..Len(mine) |-> [user |-> mine[k].payload.user_message,
                                 bot |-> mine[k].payload.bot_response]]

Summary(payload) ==
    [session_id |-> payload.session_id, first_message |-> payload.user_message,
     timestamp |-> payload.timestamp]

\* the dictionary update, wrongly replacing the entry of a session already seen
RememberLatest(acc, payload) ==
    IF \E i \in 1..Len(acc) : acc[i].session_id = payload.session_id
    THEN [i \in 1..Len(acc) |-> IF acc[i].session_id = payload.session_id
                                THEN Summary(payload) ELSE acc[i]]
    ELSE Append(acc, Summary(payload))

\* `if sid not in sessions: sessions[sid] = {...}`; the dictionary keeps the
\* order in which its keys were first set
Remember(acc, payload) ==
    IF \E i \in 1..Len(acc) : acc[i].session_id = payload.session_id
    THEN acc
    ELSE Append(acc, Summary(payload))

RECURSIVE GroupSessions(_)
\* the loop of chat_history_page over the scanned points
GroupSessions(scan) ==
    IF scan = <<>> THEN <<>>
    ELSE Remember(GroupSessions(SubSeq(scan, 1, Len(scan) - 1)), scan[Len(scan)].payload)

\* sorted(sessions.values(), key=lambda x: -x["timestamp"])
SortedByRecency(values) ==
    LET sorted == StableSort([k \in 1..Len(values) |->
                                [key |-> 0 - values[k].timestamp, val |-> values[k]]])
    IN  [k \in 1..Len(sorted) |-> sorted[k].val]

SessionIds == 1..3

\* GET /chat-session/{session_id}
StartChatSession(w) ==
    /\ Accept(w)
    /\ \E session_id \in SessionIds :
         req' = [req EXCEPT ![w] = [Idle EXCEPT !.op = "chat_session", !.pc = "scroll",
                                               !.sid = session_id,
                                               !.calls = <<Call("get_collections", "")>>]]
    /\ UNCHANGED <<exists, vparams, points, base, log, asked, envVars>>

ChatSessionScroll(w) ==
    /\ req[w].op = "chat_session" /\ req[w].pc = "scroll"
    /\ IF CHAT \notin exists THEN Raise(w, "scroll", CHAT)
       ELSE LET scan == Scroll(CHAT, ChatScanLimit)
            IN  req' = [req EXCEPT ![w].calls = Append(@, Call("scroll", CHAT)),
                                   ![w].scan = scan,
                                   ![w].history = Replay(scan, req[w].sid),
                                   ![w].success = TRUE,
                                   ![w].pc = "done"]
    /\ UNCHANGED <<exists, vparams, points, base, log, asked, started, overlapped, envVars>>

\* GET /chat-history
StartChatHistory(w) ==
    /\ Accept(w)
    /\ req' = [req EXCEPT ![w] = [Idle EXCEPT !.op = "chat_history", !.pc = "list"]]
    /\ UNCHANGED <<exists, vparams, points, base, log, asked, envVars>>

ChatHistoryList(w) ==
    /\ req[w].op = "chat_history" /\ req[w].pc = "list"
    /\ req' = [req EXCEPT ![w].calls = Append(@, Call("get_collections", "")),
                          ![w].seen = GetCollections,
                          ![w].summaries = <<>>,
                          ![w].success = ~CollectionFound(CHAT, GetCollections),
                          ![w].pc = IF CollectionFound(CHAT, GetCollections)
                                    THEN "scroll" ELSE "done"]
    /\ UNCHANGED <<exists, vparams, points, base, log, asked, started, overlapped, envVars>>

ChatHistoryScroll(w) ==
    /\ req[w].op = "chat_history" /\ req[w].pc = "scroll"
    /\ IF CHAT \notin exists THEN Raise(w, "scroll", CHAT)
       ELSE LET scan == Scroll(CHAT, ChatScanLimit)
            IN  req' = [req EXCEPT ![w].calls = Append(@, Call("scroll", CHAT)),
                                   ![w].scan = scan,
                                   ![w].summaries = SortedByRecency(GroupSessions(scan)),
                                   ![w].success = TRUE,
                                   ![w].pc = "done"]
    /\ UNCHANGED <<exists, vparams, points, base, log, asked, started, overlapped, envVars>>

\* a chat turn as chat_post stores it
Turn(session_id, user_message, timestamp, cname) ==
    [session_id |-> session_id, user_message |-> user_message, bot_response |-> Answer,
     timestamp |-> timestamp, collection |-> cname]

\* three turns stored earlier, of any sessions and times: their identifiers
\* (hence the scan order) are unrelated to their timestamps
StoredTurns ==
    {[i \in 1..3 |-> [vsize |-> EmbedDim,
                      payload |-> Turn(s[i], <<"message", i>>, t[i], KB)]] :
        s \in {<<1, 1, 1>>, <<1, 2, 1>>, <<2, 2, 1>>}, t \in [1..3 -> 0..2]}

InitChatPages ==
    /\ exists \in {{KB}, {KB, CHAT}}
    /\ vparams = [c \in Names |-> IF c \in exists THEN [size |-> EmbedDim, distance |-> COSINE]
                                  ELSE NoParams]
    /\ \E turns \in StoredTurns \cup {EmptyPoints} :
         points = [c \in Names |-> IF c = CHAT /\ CHAT \in exists THEN turns ELSE EmptyPoints]
    /\ InitRest

NextChatPages ==
    \E w \in W :
        \/ StartChatSession(w)
        \/ ChatSessionScroll(w)
        \/ StartChatHistory(w)
        \/ ChatHistoryList(w)
        \/ ChatHistoryScroll(w)
        \/ Respond(w)

SpecChatPages == InitChatPages /\ [][NextChatPages]_vars

\* the enumerations of a finite set: every order its elements can be listed in
Orders(S) ==
    {f \in [1..Cardinality(S) -> S] : \A a, b \in 1..Cardinality(S) : f[a] = f[b] => a = b}

\* C7: the replay of session s lists exactly the scanned turns of s, each
\* once and no turn of another session, by non-decreasing timestamp, in
\* whatever order the scan returned them.
C7_ReplayOrdered ==
    \A w \in W :
        (req[w].op = "chat_session" /\ req[w].pc = "done") =>
            LET scan == req[w].scan
                mine == {k \in 1..Len(scan) : scan[k].payload.session_id = req[w].sid}
            IN  \E ord \in Orders(mine) :
                    /\ Len(req[w].history) = Cardinality(mine)
                    /\ \A a \in 1..Cardinality(mine) :
                         req[w].history[a] = [user |-> scan[ord[a]].payload.user_message,
                                              bot |-> scan[ord[a]].payload.bot_response]
                    /\ \A a, b \in 1..Cardinality(mine) :
                         a < b => scan[ord[a]].payload.timestamp <= scan[ord[b]].payload.timestamp

\* three turns of one session scanned in the reverse of their time order,
\* among them none of another session, replayed oldest first
C7_Witness ==
    \E w \in W :
        /\ req[w].op = "chat_session" /\ req[w].pc = "done"
        /\ Len(req[w].scan) = 3
        /\ \A k \in 1..3 : req[w].scan[k].payload.session_id = req[w].sid
        /\ req[w].scan[1].payload.timestamp > req[w].scan[2].payload.timestamp
        /\ req[w].scan[2].payload.timestamp > req[w].scan[3].payload.timestamp
        /\ req[w].history = [a \in 1..3 |->
                               [user |-> req[w].scan[4 - a].payload.user_message,
                                bot |-> req[w].scan[4 - a].payload.bot_response]]

\* C9: the listing holds one summary per session identifier among the scanned
\* turns (at most 1000), each with the message and the timestamp of the
\* session's first turn in scan order, by non-increasing timestamp; without a
\* chat-storage collection it is empty and nothing is scanned.
C9_SessionListing ==
    \A w \in W :
        (req[w].op = "chat_history" /\ req[w].pc = "done") =>
            LET scan == req[w].scan
                list == req[w].summaries
                First(sid) == Min({k \in 1..Len(scan) : scan[k].payload.session_id = sid})
            IN  IF CHAT \notin req[w].seen
                THEN /\ list = <<>>
                     /\ \A k \in 1..Len(req[w].calls) : req[w].calls[k].call # "scroll"
                ELSE /\ Len(scan) <= ChatScanLimit
                     /\ {list[i].session_id : i \in 1..Len(list)} =
                          {scan[k].payload.session_id : k \in 1..Len(scan)}
                     /\ \A i, j \in 1..Len(list) :
                          list[i].session_id = list[j].session_id => i = j
                     /\ \A i \in 1..Len(list) :
                          /\ list[i].first_message =
                               scan[First(list[i].session_id)].payload.user_message
                          /\ list[i].timestamp =
                               scan[First(list[i].session_id)].payload.timestamp
                     /\ \A i, j \in 1..Len(list) :
                          i < j => list[i].timestamp >= list[j].timestamp

\* two sessions listed, the one met second in the scan first: its first
\* scanned turn is the more recent, though not its own latest
C9_Witness ==
    \E w \in W :
        /\ req[w].op = "chat_history" /\ req[w].pc = "done"
        /\ Len(req[w].summaries) = 2
        /\ req[w].summaries[1].session_id # req[w].scan[1].payload.session_id
        /\ \E k \in 2..Len(req[w].scan) :
             /\ req[w].scan[k].payload.session_id = req[w].scan[1].payload.session_id
             /\ req[w].scan[k].payload.timestamp # req[w].scan[1].payload.timestamp

\* the listing asked while there is no chat-storage collection
C9_WitnessAbsent ==
    \E w \in W :
        /\ req[w].op = "chat_history" /\ req[w].pc = "done"
        /\ CHAT \notin exists /\ req[w].summaries = <<>>

\* -------------------------------------------------------------- chat post
ChatTargets == {KB, MISSING}
Messages == {<<"hello", 0>>}
UUIDs == 1..MaxRequests

\* client.create_collection(name, VectorParams(size, COSINE)): the store
\* refuses a name it already holds
CreateAccepted(name) == name \notin exists

\* POST /chat: the request arrives, with or without a session cookie
StartChatPost(w) ==
    /\ Accept(w)
    /\ \E cname \in ChatTargets, user_message \in Messages, cookie \in 0..sessions :
         req' = [req EXCEPT ![w] = [Idle EXCEPT !.op = "chat_post", !.pc = "answer",
                                               !.cname = cname, !.text = user_message,
                                               !.cookie = cookie,
                                               !.calls = <<Call("get_collections", "")>>]]
    /\ UNCHANGED <<exists, vparams, points, base, log, asked, envVars>>

\* the session identifier, wrongly a new one whatever the cookie
SessionIdAlwaysNew(cookie, uuid) == uuid

\* if not session_id: session_id = str(uuid.uuid4())
\* (cookie 0 stands for no cookie, or an empty one)
SessionId(cookie, uuid) == IF cookie = 0 THEN uuid ELSE cookie

\* search, answer, then the session identifier and the timestamp of the turn
ChatPostAnswer(w) ==
    /\ req[w].op = "chat_post" /\ req[w].pc = "answer"
    /\ IF req[w].cname \notin exists
       THEN /\ Raise(w, "search", req[w].cname)
            /\ UNCHANGED <<sessions, now>>
       ELSE \E timestamp \in {now, now + 1} :
            /\ req' = [req EXCEPT ![w].calls = @ \o <<Call("encode", ""),
                                                     Call("search", req[w].cname),
                                                     Call("generate", ""),
                                                     Call("encode", "")>>,
                                  ![w].hits = SearchHits(req[w].cname, ChatSearchLimit),
                                  ![w].result = Answer,
                                  ![w].sid = SessionId(req[w].cookie, sessions + 1),
                                  ![w].ts = timestamp,
                                  ![w].pc = "ensure"]
            /\ sessions' = IF req[w].cookie = 0 THEN sessions + 1 ELSE sessions
            /\ now' = timestamp
    /\ UNCHANGED <<exists, vparams, points, base, log, asked, started, overlapped, used, pdf,
                   clients>>

\* "Ensure chat_history collection exists": the listing
ChatPostEnsure(w) ==
    /\ req[w].op = "chat_post" /\ req[w].pc = "ensure"
    /\ req' = [req EXCEPT ![w].calls = Append(@, Call("get_collections", "")),
                          ![w].seen = GetCollections,
                          ![w].pc = IF CollectionFound(CHAT, GetCollections)
                                    THEN "upsert" ELSE "create"]
    /\ UNCHANGED <<exists, vparams, points, base, log, asked, started, overlapped, envVars>>

\* ... and the creation that follows when the listing lacked it
ChatPostCreate(w) ==
    /\ req[w].op = "chat_post" /\ req[w].pc = "create"
    /\ IF CreateAccepted(CHAT)
       THEN /\ exists' = exists \cup {CHAT}
            /\ vparams' = [vparams EXCEPT ![CHAT] = VectorParams(Encode(req[w].text))]
            /\ points' = [points EXCEPT ![CHAT] = EmptyPoints]
            /\ req' = [req EXCEPT ![w].calls = Append(@, Call("create_collection", CHAT)),
                                  ![w].pc = "upsert"]
       ELSE /\ Raise(w, "create_collection", CHAT)
            /\ UNCHANGED <<exists, vparams, points>>
    /\ UNCHANGED <<base, log, asked, started, overlapped, envVars>>

\* the turn is stored under a fresh uuid4 and the page is returned
ChatPostUpsert(w) ==
    /\ req[w].op = "chat_post" /\ req[w].pc = "upsert"
    /\ \E id \in UUIDs \ used :
         LET r == req[w]
             batch == <<PointStruct(id, Encode(r.text),
                                    Turn(r.sid, r.text, r.ts, r.cname))>>
         IN  /\ used' = used \cup {id}
             /\ IF UpsertAccepted(CHAT, batch)
                THEN /\ points' = [points EXCEPT ![CHAT] = Upserted(@, batch)]
                     /\ log' = log \o LogEntries(CHAT, batch)
                     /\ req' = [req EXCEPT ![w].calls = Append(@, Call("upsert", CHAT)),
                                           ![w].ids = <<id>>,
                                           ![w].wroteAt = Len(log) + 1,
                                           ![w].set_cookie = r.sid,
                                           ![w].success = TRUE,
                                           ![w].pc = "done"]
                ELSE /\ Raise(w, "upsert", CHAT)
                     /\ UNCHANGED <<points, log>>
    /\ UNCHANGED <<exists, vparams, base, asked, started, overlapped, sessions, now, pdf,
                   clients>>

InitChatPost ==
    /\ exists \in {{KB}, {KB, CHAT}}
    /\ \E size \in VectorSizes :
         vparams = [c \in Names |-> IF c = KB THEN [size |-> EmbedDim, distance |-> COSINE]
                                    ELSE IF c = CHAT /\ CHAT \in exists
                                         THEN [size |-> size, distance |-> COSINE]
                                    ELSE NoParams]
    /\ points = [c \in Names |-> IF c = KB THEN SeedPoints(2) ELSE EmptyPoints]
    /\ InitRest

NextChatPost ==
    \E w \in W :
        \/ StartChatPost(w)
        \/ ChatPostAnswer(w)
        \/ ChatPostEnsure(w)
        \/ ChatPostCreate(w)
        \/ ChatPostUpsert(w)
        \/ Respond(w)

SpecChatPost == InitChatPost /\ [][NextChatPost]_vars

\* C8: the chat-storage collection holds one point per completed post, none
\* ever replaced; a post that found no chat-storage collection has it created
\* with the embedding's size and is not ended by an exception.
C8_OnePointPerPost ==
    /\ Cardinality(DOMAIN points[CHAT]) =
         Cardinality(DOMAIN base.points[CHAT]) + Cardinality(LogOf(CHAT))
    /\ \A j \in LogOf(CHAT) : points[CHAT][log[j].id].payload = log[j].payload
    /\ \A w \in W :
         (req[w].op = "chat_post" /\ req[w].pc \in {"upsert", "done", "failed"}
          /\ req[w].raised # "search" /\ CHAT \notin req[w].seen)
         => /\ req[w].pc # "failed"
            /\ CHAT \in exists
            /\ vparams[CHAT] = [size |-> EmbedDim, distance |-> COSINE]

\* the same, of posts that never overlap
C8_SequentialPosts == ~overlapped => C8_OnePointPerPost

\* ------------------------------------------------------ session cookies
\* a request leaves browser c carrying the cookie c holds
Sent(c) ==
    clients' = [clients EXCEPT ![c].in_flight = @ + 1,
                               ![c].overlapped = (@ \/ clients[c].in_flight > 0)]

\* GET /chat from a browser: the page is built and the cookie set
ClientChatPage(w) ==
    /\ Accept(w)
    /\ \E c \in Clients :
         LET session_id == SessionId(clients[c].jar, sessions + 1)
         IN  /\ req' = [req EXCEPT ![w] = [Idle EXCEPT !.op = "chat_page", !.pc = "done",
                                                   !.client = c,
                                                   !.cookie = clients[c].jar,
                                                   !.sid = session_id,
                                                   !.set_cookie = session_id,
                                                   !.success = TRUE,
                                                   !.calls = <<Call("get_collections", "")>>]]
             /\ sessions' = IF clients[c].jar = 0 THEN sessions + 1 ELSE sessions
             /\ Sent(c)
    /\ UNCHANGED <<exists, vparams, points, base, log, asked, used, now, pdf>>

\* POST /chat from a browser
ClientChatPost(w) ==
    /\ Accept(w)
    /\ \E c \in Clients, cname \in ChatTargets, user_message \in Messages :
         /\ req' = [req EXCEPT ![w] = [Idle EXCEPT !.op = "chat_post", !.pc = "answer",
                                                   !.client = c,
                                                   !.cname = cname, !.text = user_message,
                                                   !.cookie = clients[c].jar,
                                                   !.calls = <<Call("get_collections", "")>>]]
         /\ Sent(c)
    /\ UNCHANGED <<exists, vparams, points, base, log, asked, used, sessions, now, pdf>>

NextSession ==
    \E w \in W :
        \/ ClientChatPage(w)
        \/ ClientChatPost(w)
        \/ ChatPostAnswer(w)
        \/ ChatPostEnsure(w)
        \/ ChatPostCreate(w)
        \/ ChatPostUpsert(w)
        \/ Respond(w)

SpecSession == InitChatPost /\ [][NextSession]_vars

\* the session ids under which the turns posted by browser c are stored
SessionsOf(c) ==
    clients[c].stored \cup
    {log[req[w].wroteAt].payload.session_id :
        w \in {v \in W : req[v].client = c /\ req[v].op = "chat_post" /\ req[v].wroteAt > 0}}

\* a post that has stored its turn stored it under the cookie's identifier,
\* or under one generated for it when there was no cookie, and sets the
\* cookie to that identifier
StoredUnderCookie ==
    \A w \in W :
        (req[w].op = "chat_post" /\ req[w].wroteAt > 0) =>
            LET stored == log[req[w].wroteAt].payload.session_id
            IN  /\ req[w].cookie # 0 => stored = req[w].cookie
                /\ req[w].cookie = 0 =>
                      /\ stored \in 1..sessions
                      /\ \A v \in W \ {w} :
                            (req[v].op \in {"chat_post", "chat_page"} /\ req[v].cookie = 0)
                                => req[v].sid # stored
                      /\ \A e \in 1..(req[w].wroteAt - 1) :
                            log[e].c = CHAT => log[e].payload.session_id # stored
                /\ req[w].pc = "done"
                /\ req[w].set_cookie = stored

\* The same of every browser, also one with several requests in flight,
\* does not hold: two posts sent at once without a cookie are each given an
\* identifier of their own.
OneSessionPerOverlappingClient ==
    \A c \in Clients : Cardinality(SessionsOf(c)) <= 1

\* C13: a post stores its turn under its cookie's identifier, or under a new
\* one when it has no cookie, and sets the cookie to that identifier; so a
\* browser that sends back the cookie it last received, each request after
\* the answer to the one before, has all its turns under one identifier.
C13_OneSessionPerSequentialClient ==
    /\ StoredUnderCookie
    /\ \A c \in Clients : ~clients[c].overlapped => Cardinality(SessionsOf(c)) <= 1

\* a browser that never had two requests in flight has a second turn stored
\* under the identifier its first post was given
C13_Witness ==
    \E c \in Clients, w \in W :
        /\ ~clients[c].overlapped
        /\ clients[c].stored # {}
        /\ req[w].client = c /\ req[w].op = "chat_post" /\ req[w].pc = "done"
        /\ req[w].cookie # 0
        /\ Cardinality({e \in 1..Len(log) : log[e].c = CHAT
                            /\ log[e].payload.session_id = req[w].cookie}) = 2

\* ------------------------------------------------------ create-collection
CreateNames == {KB, CHAT}

\* POST /create-collection
StartCreateCollection(w) ==
    /\ Accept(w)
    /\ \E name \in CreateNames, vector_size \in VectorSizes :
         req' = [req EXCEPT ![w] = [Idle EXCEPT !.op = "create_collection", !.pc = "list",
                                               !.cname = name, !.size = vector_size]]
    /\ UNCHANGED <<exists, vparams, points, base, log, asked, envVars>>

\* the listing and the test for a name already taken
CreateCollectionList(w) ==
    /\ req[w].op = "create_collection" /\ req[w].pc = "list"
    /\ IF CollectionFound(req[w].cname, GetCollections)
       THEN /\ req' = [req EXCEPT ![w].calls = Append(@, Call("get_collections", "")),
                                  ![w].seen = GetCollections,
                                  ![w].result = "already exists.",
                                  ![w].success = FALSE,
                                  ![w].pc = "done"]
            /\ asked' = Append(asked, [name |-> req[w].cname, size |-> req[w].size,
                                       success |-> FALSE])
       ELSE /\ req' = [req EXCEPT ![w].calls = Append(@, Call("get_collections", "")),
                                  ![w].seen = GetCollections,
                                  ![w].pc = "create"]
            /\ UNCHANGED asked
    /\ UNCHANGED <<exists, vparams, points, base, log, started, overlapped, envVars>>

\* client.create_collection and the message of success
CreateCollectionCreate(w) ==
    /\ req[w].op = "create_collection" /\ req[w].pc = "create"
    /\ IF CreateAccepted(req[w].cname)
       THEN /\ exists' = exists \cup {req[w].cname}
            /\ vparams' = [vparams EXCEPT ![req[w].cname] = VectorParams(req[w].size)]
            /\ points' = [points EXCEPT ![req[w].cname] = EmptyPoints]
            /\ req' = [req EXCEPT ![w].calls = Append(@, Call("create_collection", req[w].cname)),
                                  ![w].result = "created successfully!",
                                  ![w].success = TRUE,
                                  ![w].pc = "done"]
            /\ asked' = Append(asked, [name |-> req[w].cname, size |-> req[w].size,
                                       success |-> TRUE])
       ELSE /\ Raise(w, "create_collection", req[w].cname)
            /\ UNCHANGED <<exists, vparams, points, asked>>
    /\ UNCHANGED <<base, log, started, overlapped, envVars>>

InitCreate ==
    /\ exists \in {{}, {KB}}
    /\ vparams = [c \in Names |-> IF c \in exists THEN VectorParams(EmbedDim) ELSE NoParams]
    /\ points = [c \in Names |-> IF c \in exists THEN SeedPoints(2) ELSE EmptyPoints]
    /\ InitRest

NextCreate ==
    \E w \in W :
        \/ StartCreateCollection(w)
        \/ CreateCollectionList(w)
        \/ CreateCollectionCreate(w)
        \/ Respond(w)

SpecCreate == InitCreate /\ [][NextCreate]_vars

AskedFor(name) == {k \in 1..Len(asked) : asked[k].name = name}

\* C10: a request for a name the listing holds is answered with the failure
\* message and has issued no creation; a request answered with success has
\* added the collection with its vector size and cosine distance.  Hence,
\* requests coming one after another, every name asked for exists, created
\* at most once, with the configuration of the first request for it (or the
\* one it had at the start), and no collection's contents have changed.
C10_CreateCollection ==
    /\ \A w \in W :
         req[w].op = "create_collection" =>
            /\ (req[w].pc # "list" /\ req[w].cname \in req[w].seen) =>
                  /\ req[w].pc = "done" /\ ~req[w].success
                  /\ req[w].result = "already exists."
                  /\ req[w].calls = <<Call("get_collections", "")>>
            /\ (req[w].pc = "done" /\ req[w].success) =>
                  /\ req[w].cname \in exists
                  /\ vparams[req[w].cname] = [size |-> req[w].size, distance |-> COSINE]
    /\ ~overlapped =>
         /\ exists = base.exists \cup {asked[k].name : k \in 1..Len(asked)}
         /\ points = base.points
         /\ \A c \in base.exists : vparams[c] = base.vparams[c]
         /\ \A k \in 1..Len(asked) :
              LET name == asked[k].name
                  first == Min(AskedFor(name))
              IN  /\ Cardinality({j \in AskedFor(name) : asked[j].success}) =
                       (IF name \in base.exists THEN 0 ELSE 1)
                  /\ name \notin base.exists =>
                       /\ asked[first].success
                       /\ vparams[name] = [size |-> asked[first].size, distance |-> COSINE]

\* a name created, then asked for again with another size: refused, and the
\* collection keeps the size of the first request
C10_Witness ==
    /\ ~overlapped
    /\ Len(asked) >= 2
    /\ asked[1].name = asked[2].name
    /\ asked[1].success /\ ~asked[2].success
    /\ asked[1].size # asked[2].size
    /\ vparams[asked[1].name].size = asked[1].size

\* --------------------------------------------- ingestion: whole batches
\* files whose chunk counts lie on both sides of one and of two batches
BatchCounts == {0, 1, BatchSize - 1, BatchSize, BatchSize + 1,
                2 * BatchSize, 2 * BatchSize + 1}

\* POST /upload-pdf of such a file, by a client that sends its uploads one
\* after another
StartUploadPdfBatches(w) ==
    /\ Accept(w)
    /\ \A v \in W : ~Busy(v)
    /\ UploadPdfRequest(w, BatchCounts)
    /\ UNCHANGED <<exists, vparams, points, base, log, asked, envVars>>

NextBatch ==
    \E w \in W :
        \/ StartUploadPdfBatches(w)
        \/ UploadPdfScroll(w)
        \/ UploadPdfUpsert(w)
        \/ Respond(w)

SpecBatch == InitIngest /\ [][NextBatch]_vars

\* the upserts a request has issued
Upserts(r) == SelectSeq(r.calls, LAMBDA c : c.call = "upsert")

\* C11: an upload of N chunks on which no store call raises sends its chunks
\* in upserts of 1 to BatchSize points, each chunk once and in chunk order,
\* every upsert but the one carrying the last chunk full; when it ends it
\* has issued ceil(N/BatchSize) upserts, has sent every chunk (none when
\* N = 0), and reports N chunks.
C11_Batching ==
    \A w \in W :
        LET r == req[w]
        IN  (r.op = "upload_pdf" /\ Lower(r.ext) = ".pdf" /\ r.raised = "") =>
              /\ Len(Upserts(r)) = Len(r.sent)
              /\ \A k \in 1..Len(r.sent) :
                    /\ Len(r.sent[k]) \in 1..BatchSize
                    /\ (Len(r.sent[k]) < BatchSize =>
                          (k = Len(r.sent) /\ r.sent[k][Len(r.sent[k])] = r.n - 1))
              /\ Concat(r.sent) = [k \in 1..Len(Concat(r.sent)) |-> k - 1]
              /\ Len(Concat(r.sent)) <= r.n
              /\ \A k \in 1..Len(r.ids) :
                    /\ r.cname \in exists
                    /\ r.ids[k] \in DOMAIN points[r.cname]
                    /\ \E e \in 1..Len(log) :
                          /\ log[e].c = r.cname /\ log[e].id = r.ids[k]
                          /\ log[e].payload.chunk = k - 1
              /\ (r.pc = "done" =>
                    /\ Len(r.sent) = CeilDiv(r.n, BatchSize)
                    /\ Len(Concat(r.sent)) = r.n
                    /\ Len(r.ids) = r.n
                    /\ r.reported = r.n)

\* an upload of more than two batches has ended: two full upserts and a
\* final one of a single chunk
C11_Witness ==
    \E w \in W :
        /\ req[w].op = "upload_pdf" /\ req[w].pc = "done" /\ req[w].raised = ""
        /\ req[w].n = 2 * BatchSize + 1
        /\ Len(req[w].sent) = 3
        /\ Len(req[w].sent[3]) = 1

\* ------------------------------------------------------- the whole program
\* every handler at once, over a store holding the default collection
Init ==
    /\ exists = {KB}
    /\ vparams = [c \in Names |-> IF c \in exists THEN VectorParams(EmbedDim) ELSE NoParams]
    /\ points = [c \in Names |-> IF c \in exists THEN SeedPoints(2) ELSE EmptyPoints]
    /\ InitRest

Next ==
    \/ NextIngest
    \/ NextSearch
    \/ NextChatPost
    \/ NextChatPages
    \/ NextCreate
    \/ NextSession

Spec == Init /\ [][Next]_vars

====
